---- MODULE Spec2Model ----
(***************************************************************************)
(* The chat widget of frontend/lionrock-chatbot (components/Chatbot.tsx):  *)
(* the ChatbotWindow component state, its event handlers, and the          *)
(* streaming read loop of sendMessage.                                     *)
(*                                                                         *)
(* Text is a sequence of symbols.  A symbol is a string standing for one   *)
(* or more characters that are never cut apart: the six characters of the  *)
(* "data: " prefix, the newline, the JSON punctuation and the quote are    *)
(* one symbol each, so that a chunk boundary can fall inside a prefix,     *)
(* inside a JSON payload or inside the [DONE] sentinel.                    *)
(***************************************************************************)
EXTENDS Integers, Sequences, FiniteSets, TLC

\* ------------------------------------------------------------------ bounds
MaxSessions == 2
MaxNotices == 1
ChunkSize == 24
\* Exchanges of SpecStream, which follow one another.
StreamSessions == 1

\* ------------------------------------------------------------ text helpers
NL == "\n"
Q == "\""
Last(s) == s[Len(s)]
Front(s) == SubSeq(s, 1, Len(s) - 1)
Min(a, b) == IF a < b THEN a ELSE b
Drop(s, n) == SubSeq(s, n + 1, Len(s))
Take(s, n) == SubSeq(s, 1, n)

\* String.prototype.trim: the white space characters at both ends.
WhiteSpace == {" ", "\t", "\r", NL}

RECURSIVE TrimStart(_)
TrimStart(s) ==
  IF s # <<>> /\ Head(s) \in WhiteSpace THEN TrimStart(Tail(s)) ELSE s

RECURSIVE TrimEnd(_)
TrimEnd(s) ==
  IF s # <<>> /\ Last(s) \in WhiteSpace THEN TrimEnd(Front(s)) ELSE s

Trim(s) == TrimEnd(TrimStart(s))

\* String.prototype.startsWith
StartsWith(s, p) == Len(s) >= Len(p) /\ Take(s, Len(p)) = p

\* String.prototype.includes
Includes(s, sub) ==
  \E i \in 1..(Len(s) - Len(sub) + 1) : SubSeq(s, i, i + Len(sub) - 1) = sub

\* Index of the first occurrence of symbol c in s, 0 when there is none.
IndexOf(s, c) ==
  IF \E i \in 1..Len(s) : s[i] = c
  THEN CHOOSE i \in 1..Len(s) : s[i] = c /\ \A j \in 1..(i - 1) : s[j] # c
  ELSE 0

\* String.prototype.split("\n"): always at least one element; the last one
\* is what follows the last newline (empty when the text ends with one).
RECURSIVE Split(_)
Split(s) ==
  LET i == IndexOf(s, NL)
  IN  IF i = 0 THEN <<s>> ELSE <<Take(s, i - 1)>> \o Split(Drop(s, i))

RECURSIVE Concat(_)
Concat(ss) == IF ss = <<>> THEN <<>> ELSE Head(ss) \o Concat(Tail(ss))

\* --------------------------------------------------------------- protocol
PREFIX == <<"d", "a", "t", "a", ":", " ">>
DONE == <<"[", "DONE", "]">>
Markers ==
  { <<"not", " ", "a", " ", "subscribed", " ", "member">>,
    <<"Daily", " ", "limit", " ", "reached">>,
    <<"Please", " ", "subscribe">> }
HasMarker(s) == \E m \in Markers : Includes(s, m)

\* JSON.parse, for the JSON texts the backend and this model produce: the
\* literal null, a number, or an object whose members are "key":"string"
\* pairs (a later duplicate key wins).  Everything else is a SyntaxError.
\* Result: [kind |-> "object", obj |-> key -> value] or [kind |-> other].
Undefined == <<>>
Get(obj, k) == IF k \in DOMAIN obj THEN obj[k] ELSE Undefined
Put(obj, k, v) == [x \in DOMAIN obj \cup {k} |-> IF x = k THEN v ELSE obj[x]]
EmptyObj == [x \in {} |-> <<>>]
JsonFail == [kind |-> "fail", obj |-> EmptyObj]

RECURSIVE ParseMembers(_, _)
ParseMembers(s, acc) ==
  \* s starts at a member: Q key Q : Q value... Q, then "," or the final "}"
  IF Len(s) < 7 \/ s[1] # Q \/ s[2] = Q \/ s[3] # Q \/ s[4] # ":" \/ s[5] # Q
  THEN JsonFail
  ELSE LET rest == Drop(s, 5)
           j == IndexOf(rest, Q)
       IN  IF j = 0 \/ Len(rest) < j + 1 THEN JsonFail
           ELSE LET acc2 == Put(acc, s[2], Take(rest, j - 1))
                    after == Drop(rest, j)
                IN  IF after = <<"}">> THEN [kind |-> "object", obj |-> acc2]
                    ELSE IF Head(after) = "," THEN ParseMembers(Tail(after), acc2)
                    ELSE JsonFail

JSONparse(s) ==
  IF s = <<"null">> THEN [kind |-> "null", obj |-> EmptyObj]
  ELSE IF s = <<"42">> THEN [kind |-> "number", obj |-> EmptyObj]
  ELSE IF s = <<"{", "}">> THEN [kind |-> "object", obj |-> EmptyObj]
  ELSE IF s # <<>> /\ Head(s) = "{" THEN ParseMembers(Tail(s), EmptyObj)
  ELSE JsonFail

\* JSON texts and wire lines used as inputs.
Str(v) == <<Q>> \o v \o <<Q>>
Member(k, v) == Str(<<k>>) \o <<":">> \o Str(v)
Obj1(k, v) == <<"{">> \o Member(k, v) \o <<"}">>
Obj2(k1, v1, k2, v2) ==
  <<"{">> \o Member(k1, v1) \o <<",">> \o Member(k2, v2) \o <<"}">>
Frame(payload) == PREFIX \o payload \o <<NL>>

\* ------------------------------------------------------- component state
\* type Message = { text, sender: "user" | "bot" | "system" }
Msg(text, sender) == [text |-> text, sender |-> sender]

GreetingText ==
  <<"Hi, how can I help you today? Please enter your User ID to start chatting.">>
EnterUserIdText == <<"Please enter your User ID first">>
GenericErrorText == <<"Something went wrong. Try again.">>
DailyLimitText == <<"Daily limit reached. Please try again tomorrow.">>
ServerErrorText == <<"Server error. Please try again later.">>
SubscriptionText ==
  <<"Subscription required. Please check your membership status.">>
NoBodyText == <<"No response body">>
UserIdSetText(uid) ==
  <<"User ID set to: ">> \o uid \o <<". You can start chatting now.">>
PleaseFillInText(missing) == <<"Please fill in: ">> \o missing

\* PROMPT_TEMPLATES, one entry of it: the text with its {idea} slot.
PROMPT_TEMPLATES ==
  { [ label |-> "Refine My Business Idea",
      text |->
        << "Act as a business strategist. Critique and refine this business ",
           "idea for me. Identify its biggest strength, its biggest ",
           "potential weakness, and the first step I should take to ",
           "validate it: ",
           "{idea}" >>,
      requiredInputs |-> <<"idea">> ] }
NoTemplate == [label |-> "", text |-> <<>>, requiredInputs |-> <<>>]

VARIABLES
  messages,               \* useState<Message[]>
  input,                  \* useState<string>
  userId,                 \* useState<string>
  loading,                \* useState<boolean>
  showUserIdInput,        \* useState<boolean>
  showTemplatesDropdown,  \* useState<boolean>
  selectedTemplate,       \* useState<PromptTemplate | null>; NoTemplate is null
  templateInputs,         \* useState<Record<string, string>>
  currentBotTextRef,      \* useRef<string>
  sessions,               \* the calls of sendMessage that passed validation
  crashed                 \* a state updater threw while rendering

vars ==
  << messages, input, userId, loading, showUserIdInput,
     showTemplatesDropdown, selectedTemplate, templateInputs,
     currentBotTextRef, sessions, crashed >>

uiVars ==
  << input, userId, showUserIdInput, showTemplatesDropdown,
     selectedTemplate, templateInputs >>

\* One call of sendMessage past its validation: the closure's locals (buffer,
\* receivedValidResponse, the userId it captured, the request it posted),
\* where it is suspended (pc), the response body and how much of it has been
\* read, and what it has done so far (frames it classified, calls of
\* fetchUsageInfo, where its placeholder sits, how it ended).
SessionIds == 1..MaxSessions
Unused ==
  [ pc |-> "unused", userId |-> <<>>, request |-> <<>>, body |-> <<>>,
    pos |-> 0, buffer |-> <<>>, receivedValidResponse |-> FALSE,
    frames |-> <<>>, fetched |-> 0, placeholder |-> 0, outcome |-> "none" ]
InFlight(s) == sessions[s].pc \in {"fetch", "read"}
Started == {s \in SessionIds : sessions[s].pc # "unused"}
FreeSession == Cardinality(Started) < MaxSessions
NextSession == Cardinality(Started) + 1

\* The validation notices now in the list; an event that would add one more
\* than MaxNotices is not taken.
IsNotice(m) ==
  /\ m.sender = "system"
  /\ m.text = EnterUserIdText \/ Take(m.text, 1) = <<"Please fill in: ">>
NoticeRoom ==
  Cardinality({i \in 1..Len(messages) : IsNotice(messages[i])}) < MaxNotices

Init ==
  /\ messages = <<Msg(GreetingText, "bot")>>
  /\ input = <<>>
  /\ userId = <<>>
  /\ loading = FALSE
  /\ showUserIdInput = TRUE
  /\ showTemplatesDropdown = FALSE
  /\ selectedTemplate = NoTemplate
  /\ templateInputs = EmptyObj
  /\ currentBotTextRef = <<>>
  /\ sessions = [s \in SessionIds |-> Unused]
  /\ crashed = FALSE

\* ------------------------------------------- the read loop of sendMessage
\* What one resumption of sendMessage reads and writes: the component state
\* it touches and the locals of its closure.
Ctx(s) ==
  [ messages |-> messages, loading |-> loading,
    currentBotTextRef |-> currentBotTextRef, crashed |-> crashed,
    buffer |-> sessions[s].buffer,
    receivedValidResponse |-> sessions[s].receivedValidResponse,
    frames |-> sessions[s].frames, fetched |-> sessions[s].fetched,
    outcome |-> sessions[s].outcome ]

\* An updater that appends a bot message when the last one is no bot message.
ReplaceLastOrPush(msgs, text) ==
  IF Last(msgs).sender = "bot"
  THEN [msgs EXCEPT ![Len(msgs)] = [@ EXCEPT !.text = text]]
  ELSE Append(msgs, Msg(text, "bot"))

\* The updater every frame handler passes to setMessages: the text of the
\* last message is replaced when its sender is "bot".  On an empty list
\* lastMessage is undefined and reading its sender throws.
ReplaceLastIfBot(msgs, text) ==
  IF Last(msgs).sender = "bot"
  THEN [msgs EXCEPT ![Len(msgs)] = [@ EXCEPT !.text = text]]
  ELSE msgs

\* The updater of the catch block.
ReplaceOrPushError(msgs, errorMessage) ==
  IF Last(msgs).sender = "bot" /\ Last(msgs).text = <<>>
  THEN [msgs EXCEPT ![Len(msgs)] = [@ EXCEPT !.text = errorMessage]]
  ELSE Append(msgs, Msg(errorMessage, "system"))

\* setMessages(updater) for an updater that reads the last message: React
\* runs it while rendering; when it throws the component is torn down and no
\* later state update has an effect.
setMessagesLast(st, text) ==
  IF st.crashed THEN st
  ELSE IF st.messages = <<>> THEN [st EXCEPT !.crashed = TRUE]
  ELSE [st EXCEPT !.messages = ReplaceLastIfBot(@, text)]

setLoading(st, v) == IF st.crashed THEN st ELSE [st EXCEPT !.loading = v]

\* fetchUsageInfo as sendMessage calls it: the request is issued at once.
fetchUsageInfo(st) ==
  [st EXCEPT !.fetched = @ + 1]

\* HandleDone that forgets the return: the loop goes on after [DONE].
HandleDoneNoReturn(st) ==
  LET a == setLoading(st, FALSE)
  IN  IF a.receivedValidResponse THEN fetchUsageInfo(a) ELSE a

\* if (dataStr === "[DONE]") { ... return }
HandleDone(st) ==
  LET a == setLoading(st, FALSE)
      b == IF a.receivedValidResponse THEN fetchUsageInfo(a) ELSE a
  IN  [b EXCEPT !.outcome = "done"]

\* HandleError that forgets the return: the loop goes on after the error.
HandleErrorNoReturn(st, text) ==
  fetchUsageInfo(setLoading(setMessagesLast(st, text), FALSE))

\* if (data.error) { ... return }, and the two marker branches.
HandleError(st, text) ==
  LET a == setMessagesLast(st, text)
      b == setLoading(a, FALSE)
      c == fetchUsageInfo(b)
  IN  [c EXCEPT !.outcome = "error"]

\* HandleText that takes the frame for a delta and appends it.
HandleTextAppend(st, text) ==
  LET a == [st EXCEPT !.receivedValidResponse = TRUE,
                      !.currentBotTextRef = @ \o text]
  IN  setMessagesLast(a, a.currentBotTextRef)

\* HandleText that records the text only when a bot message is last.
HandleTextIfBot(st, text) ==
  IF st.messages # <<>> /\ Last(st.messages).sender = "bot"
  THEN setMessagesLast([st EXCEPT !.receivedValidResponse = TRUE,
                                  !.currentBotTextRef = text], text)
  ELSE st

\* if (data.full_text) { ... } and the legacy text branch.
HandleText(st, text) ==
  LET a == [st EXCEPT !.receivedValidResponse = TRUE,
                      !.currentBotTextRef = text]
  IN  setMessagesLast(a, a.currentBotTextRef)

\* HandleLegacy without the legacy text branch.
HandleLegacyDropped(st, dataStr) ==
  IF HasMarker(dataStr) THEN HandleError(st, dataStr) ELSE st

\* catch (parseError) { ... }
HandleLegacy(st, dataStr) ==
  IF HasMarker(dataStr) THEN HandleError(st, dataStr)
  ELSE IF dataStr # <<>> /\ dataStr # DONE THEN HandleText(st, dataStr)
  ELSE st

\* try { const data = JSON.parse(dataStr); ... }
HandleJson(st, dataStr) ==
  LET data == JSONparse(dataStr)
      error == Get(data.obj, "error")
      full_text == Get(data.obj, "full_text")
      content == Get(data.obj, "content")
  IN  IF data.kind \in {"fail", "null"} THEN HandleLegacy(st, dataStr)
      ELSE IF error # Undefined THEN HandleError(st, error)
      ELSE LET a == IF full_text # Undefined THEN HandleText(st, full_text)
                    ELSE st
           IN  IF content # Undefined /\ HasMarker(content)
               THEN HandleError(a, content)
               ELSE a

\* One frame: the body of the for loop after its two `continue`s.
ProcessFrame(st, dataStr) ==
  LET a == [st EXCEPT !.frames = Append(@, dataStr)]
  IN  IF dataStr = DONE THEN HandleDone(a) ELSE HandleJson(a, dataStr)

\* DataStr that does not trim.
DataStrNoTrim(line) == Drop(line, Len(PREFIX))

\* const dataStr = line.replace(/^data: /, "").trim()
DataStr(line) == Trim(Drop(line, Len(PREFIX)))

\* for (const line of lines) { ... }: a `return` inside ends it.
RECURSIVE ProcessLines(_, _)
ProcessLines(st, lines) ==
  IF lines = <<>> \/ st.outcome # "none" THEN st
  ELSE LET line == Head(lines)
       IN  IF ~StartsWith(line, PREFIX) \/ DataStr(line) = <<>>
           THEN ProcessLines(st, Tail(lines))
           ELSE ProcessLines(ProcessFrame(st, DataStr(line)), Tail(lines))

\* Carry that forgets the unterminated tail of the chunk.
CarryDropped(lines) == <<>>

\* buffer = lines.pop() || ""
Carry(lines) == Last(lines)

\* One turn of the while loop for a chunk that arrived.
ProcessChunk(st, value) ==
  LET lines == Split(st.buffer \o value)
  IN  ProcessLines([st EXCEPT !.buffer = Carry(lines)], Front(lines))

\* HandleClose that first classifies what is left in buffer.
HandleCloseFlush(st) ==
  LET a == ProcessLines([st EXCEPT !.buffer = <<>>], <<st.buffer>>)
      b == setLoading(a, FALSE)
      c == IF b.receivedValidResponse THEN fetchUsageInfo(b) ELSE b
  IN  IF a.outcome # "none" THEN a ELSE [c EXCEPT !.outcome = "closed"]

\* HandleClose that never refreshes the usage.
HandleCloseNoFetch(st) ==
  [setLoading(st, FALSE) EXCEPT !.outcome = "closed"]

\* if (done) break; then the code after the loop.
HandleClose(st) ==
  LET a == setLoading(st, FALSE)
      b == IF a.receivedValidResponse THEN fetchUsageInfo(a) ELSE a
  IN  [b EXCEPT !.outcome = "closed"]

\* catch (err) { ... }
HandleCatch(st, errorMessage) ==
  LET a == setLoading(st, FALSE)
      b == IF a.crashed THEN a
           ELSE IF a.messages = <<>> THEN [a EXCEPT !.crashed = TRUE]
           ELSE [a EXCEPT !.messages = ReplaceOrPushError(@, errorMessage)]
      c == fetchUsageInfo(b)
  IN  [c EXCEPT !.outcome = "failed"]

\* Writes the result of one resumption back; the session is suspended at pc.
Resume(s, st, pc, pos) ==
  /\ messages' = st.messages
  /\ loading' = st.loading
  /\ currentBotTextRef' = st.currentBotTextRef
  /\ crashed' = st.crashed
  /\ sessions' =
       [sessions EXCEPT ![s] =
          [@ EXCEPT !.pc = IF st.outcome = "none" THEN pc ELSE "end",
                    !.pos = pos,
                    !.buffer = st.buffer,
                    !.receivedValidResponse = st.receivedValidResponse,
                    !.frames = st.frames,
                    !.fetched = st.fetched,
                    !.outcome = st.outcome]]
  /\ UNCHANGED uiVars

\* ------------------------------------------------------------ sendMessage
\* The synchronous part of sendMessage(customMessage?, templateLabel?), up
\* to the await of fetch.  An absent argument is Undefined.  It leaves
\* selectedTemplate and templateInputs to its caller, which sets them after
\* the call (executeTemplate) or has them reset here (a typed message).
MessageToSend(customMessage) ==
  IF customMessage # Undefined THEN customMessage ELSE input

\* SendResult without the test of line 271.
SendResultNoTrim(customMessage) ==
  IF Trim(userId) = <<>> THEN "rejected" ELSE "accepted"

SendResult(customMessage) ==
  IF Trim(MessageToSend(customMessage)) = <<>> THEN "ignored"
  ELSE IF Trim(userId) = <<>> THEN "rejected"
  ELSE "accepted"

\* sendMessage that appends the placeholder before the user message.
sendMessageSwapped(customMessage, templateLabel) ==
  LET userMessage == MessageToSend(customMessage)
      result == SendResult(customMessage)
  IN  CASE result = "ignored" ->
                UNCHANGED << messages, input, loading, currentBotTextRef,
                             showUserIdInput, sessions >>
           [] result = "rejected" ->
                /\ NoticeRoom
                /\ messages' = Append(messages, Msg(EnterUserIdText, "system"))
                /\ showUserIdInput' = TRUE
                /\ UNCHANGED <<input, loading, currentBotTextRef, sessions>>
           [] result = "accepted" ->
                /\ FreeSession
                /\ messages' = messages \o
                     <<Msg(<<>>, "bot"), Msg(userMessage, "user")>>
                /\ input' = IF customMessage = Undefined THEN <<>> ELSE input
                /\ loading' = TRUE
                /\ currentBotTextRef' = <<>>
                /\ sessions' =
                     [sessions EXCEPT ![NextSession] =
                        [Unused EXCEPT
                           !.pc = "fetch",
                           !.userId = userId,
                           !.request = << userMessage, userId, templateLabel >>,
                           !.placeholder = Len(messages) + 1]]
                /\ UNCHANGED showUserIdInput

sendMessage(customMessage, templateLabel) ==
  LET userMessage == MessageToSend(customMessage)
      result == SendResult(customMessage)
  IN  CASE result = "ignored" ->
                UNCHANGED << messages, input, loading, currentBotTextRef,
                             showUserIdInput, sessions >>
           [] result = "rejected" ->
                /\ NoticeRoom
                /\ messages' = Append(messages, Msg(EnterUserIdText, "system"))
                /\ showUserIdInput' = TRUE
                /\ UNCHANGED <<input, loading, currentBotTextRef, sessions>>
           [] result = "accepted" ->
                /\ FreeSession
                /\ messages' = messages \o
                     <<Msg(userMessage, "user"), Msg(<<>>, "bot")>>
                /\ input' = IF customMessage = Undefined THEN <<>> ELSE input
                /\ loading' = TRUE
                /\ currentBotTextRef' = <<>>
                /\ sessions' =
                     [sessions EXCEPT ![NextSession] =
                        [Unused EXCEPT
                           !.pc = "fetch",
                           !.userId = userId,
                           !.request = << userMessage, userId, templateLabel >>,
                           !.placeholder = Len(messages) + 2]]
                /\ UNCHANGED showUserIdInput

\* ------------------------------------------------------ the user's events
\* Every handler runs in a mounted component only.

\* <input value={input} onChange=... disabled={loading || !userId}>
ChangeInput(v) ==
  /\ ~crashed /\ ~loading /\ userId # <<>>
  /\ v # input
  /\ input' = v
  /\ UNCHANGED << messages, userId, loading, showUserIdInput,
                  showTemplatesDropdown, selectedTemplate, templateInputs,
                  currentBotTextRef, sessions, crashed >>

\* onKeyDown Enter in the message input: sendMessage()
KeyEnterSend ==
  /\ ~crashed /\ ~loading /\ userId # <<>>
  /\ sendMessage(Undefined, Undefined)
  /\ IF SendResult(Undefined) = "accepted"
     THEN selectedTemplate' = NoTemplate /\ templateInputs' = EmptyObj
     ELSE UNCHANGED <<selectedTemplate, templateInputs>>
  /\ UNCHANGED <<userId, showTemplatesDropdown, crashed>>

\* The send button: disabled={loading || !userId || !input.trim()}
ClickSend ==
  /\ ~crashed /\ ~loading /\ userId # <<>> /\ Trim(input) # <<>>
  /\ sendMessage(Undefined, Undefined)
  /\ IF SendResult(Undefined) = "accepted"
     THEN selectedTemplate' = NoTemplate /\ templateInputs' = EmptyObj
     ELSE UNCHANGED <<selectedTemplate, templateInputs>>
  /\ UNCHANGED <<userId, showTemplatesDropdown, crashed>>

\* The modal's input, rendered while showUserIdInput.
ChangeUserId(v) ==
  /\ ~crashed /\ showUserIdInput
  /\ v # userId
  /\ userId' = v
  /\ UNCHANGED << messages, input, loading, showUserIdInput,
                  showTemplatesDropdown, selectedTemplate, templateInputs,
                  currentBotTextRef, sessions, crashed >>

\* setMessages with a new list: no session's placeholder is in it.
ForgetPlaceholders ==
  [s \in SessionIds |-> [sessions[s] EXCEPT !.placeholder = 0]]

handleUserIdSubmit ==
  /\ ~crashed /\ showUserIdInput
  /\ Trim(userId) # <<>>
  /\ showUserIdInput' = FALSE
  /\ messages' = <<Msg(UserIdSetText(userId), "system")>>
  /\ sessions' = ForgetPlaceholders
  /\ UNCHANGED << input, userId, loading, showTemplatesDropdown,
                  selectedTemplate, templateInputs, currentBotTextRef,
                  crashed >>

\* The Change button of the header, rendered while userId is not empty.
resetUserId ==
  /\ ~crashed /\ userId # <<>>
  /\ userId' = <<>>
  /\ showUserIdInput' = TRUE
  /\ messages' = <<>>
  /\ sessions' = ForgetPlaceholders
  /\ UNCHANGED << input, loading, showTemplatesDropdown, selectedTemplate,
                  templateInputs, currentBotTextRef, crashed >>

\* The dropdown button: disabled={loading || !userId}
ToggleTemplatesDropdown ==
  /\ ~crashed /\ ~loading /\ userId # <<>>
  /\ showTemplatesDropdown' = ~showTemplatesDropdown
  /\ UNCHANGED << messages, input, userId, loading,
                  showUserIdInput, selectedTemplate, templateInputs,
                  currentBotTextRef, sessions, crashed >>

\* The close button inside the open dropdown.
CloseTemplatesDropdown ==
  /\ ~crashed /\ showTemplatesDropdown
  /\ showTemplatesDropdown' = FALSE
  /\ UNCHANGED << messages, input, userId, loading,
                  showUserIdInput, selectedTemplate, templateInputs,
                  currentBotTextRef, sessions, crashed >>

\* A template button of the open dropdown.
handleTemplateSelect(template) ==
  /\ ~crashed /\ showTemplatesDropdown
  /\ selectedTemplate' = template
  /\ templateInputs' = EmptyObj
  /\ showTemplatesDropdown' = FALSE
  /\ UNCHANGED << messages, input, userId, loading,
                  showUserIdInput, currentBotTextRef, sessions,
                  crashed >>

\* An input of the template form, rendered while a template is selected.
handleTemplateInputChange(inputKey, value) ==
  /\ ~crashed /\ selectedTemplate # NoTemplate
  /\ Get(templateInputs, inputKey) # value
  /\ templateInputs' = Put(templateInputs, inputKey, value)
  /\ UNCHANGED << messages, input, userId, loading,
                  showUserIdInput, showTemplatesDropdown, selectedTemplate,
                  currentBotTextRef, sessions, crashed >>

\* The close button of the template form.
ClearSelectedTemplate ==
  /\ ~crashed /\ selectedTemplate # NoTemplate
  /\ selectedTemplate' = NoTemplate
  /\ UNCHANGED << messages, input, userId, loading,
                  showUserIdInput, showTemplatesDropdown, templateInputs,
                  currentBotTextRef, sessions, crashed >>

\* formatTemplate: each {key} of requiredInputs replaced, once, by its input.
RECURSIVE ReplaceFirst(_, _, _)
ReplaceFirst(text, slot, value) ==
  IF text = <<>> THEN <<>>
  ELSE IF Head(text) = slot THEN value \o Tail(text)
  ELSE <<Head(text)>> \o ReplaceFirst(Tail(text), slot, value)

RECURSIVE FormatKeys(_, _, _)
FormatKeys(text, keys, inputs) ==
  IF keys = <<>> THEN text
  ELSE FormatKeys(ReplaceFirst(text, "{" \o Head(keys) \o "}",
                               Get(inputs, Head(keys))),
                  Tail(keys), inputs)

formatTemplate(template, inputs) ==
  FormatKeys(template.text, template.requiredInputs, inputs)

\* requiredInputs.filter(input => !templateInputs[input]?.trim()).join(", ")
RECURSIVE MissingInputs(_, _)
MissingInputs(keys, inputs) ==
  IF keys = <<>> THEN <<>>
  ELSE (IF Trim(Get(inputs, Head(keys))) = <<>> THEN <<Head(keys)>> ELSE <<>>)
       \o MissingInputs(Tail(keys), inputs)

\* The Generate Response button of the template form: it has no disabled
\* attribute.
executeTemplate ==
  /\ ~crashed /\ selectedTemplate # NoTemplate
  /\ LET missingInputs ==
           MissingInputs(selectedTemplate.requiredInputs, templateInputs)
     IN  IF missingInputs # <<>>
         THEN /\ NoticeRoom
              /\ messages' =
                   Append(messages, Msg(PleaseFillInText(missingInputs), "system"))
              /\ UNCHANGED << input, loading, currentBotTextRef,
                              showUserIdInput, sessions, selectedTemplate,
                              templateInputs >>
         ELSE /\ sendMessage(formatTemplate(selectedTemplate, templateInputs),
                             selectedTemplate.label)
              /\ selectedTemplate' = NoTemplate
              /\ templateInputs' = EmptyObj
  /\ UNCHANGED <<userId, showTemplatesDropdown, crashed>>

\* ------------------------------------------------ the network's events
\* The error message of a response that is not ok.
\* ErrorData that never reads the body.
ErrorDataDefault(json) == DailyLimitText

ErrorData(json) ==
  LET errorData == JSONparse(json)
  IN  IF errorData.kind \in {"fail", "null"} THEN DailyLimitText
      ELSE IF Get(errorData.obj, "detail") # Undefined
      THEN Get(errorData.obj, "detail")
      ELSE DailyLimitText

StatusMessage(status, json) ==
  IF status = 429 THEN ErrorData(json)
  ELSE IF status = 500 THEN ServerErrorText
  ELSE IF status = 401 THEN SubscriptionText
  ELSE GenericErrorText

\* fetch resolves with a status that is not ok: throw new Error(errorMessage)
FetchNotOk(s, status, json) ==
  /\ sessions[s].pc = "fetch"
  /\ Resume(s, HandleCatch(Ctx(s), StatusMessage(status, json)), "end", 0)

\* fetch resolves ok without a body: throw new Error("No response body")
FetchNoBody(s) ==
  /\ sessions[s].pc = "fetch"
  /\ Resume(s, HandleCatch(Ctx(s), NoBodyText), "end", 0)

\* fetch rejects: the catch block shows err.message
FailedToFetchText == <<"Failed to fetch">>
FetchThrows(s) ==
  /\ sessions[s].pc = "fetch"
  /\ Resume(s, HandleCatch(Ctx(s), FailedToFetchText), "end", 0)

\* fetch resolves ok with a body: the reader is opened, the first read awaits
FetchOk(s, body) ==
  /\ sessions[s].pc = "fetch"
  /\ sessions' = [sessions EXCEPT ![s] = [@ EXCEPT !.pc = "read", !.body = body]]
  /\ UNCHANGED << messages, input, userId, loading,
                  showUserIdInput, showTemplatesDropdown, selectedTemplate,
                  templateInputs, currentBotTextRef, crashed >>

\* reader.read() resolves with the next n symbols of the body
Unread(s) == Drop(sessions[s].body, sessions[s].pos)
ReadChunk(s, n) ==
  /\ sessions[s].pc = "read"
  /\ n \in 1..Len(Unread(s))
  /\ Resume(s, ProcessChunk(Ctx(s), Take(Unread(s), n)), "read",
            sessions[s].pos + n)

\* reader.read() resolves with done: the body has been read to its end
ReadDone(s) ==
  /\ sessions[s].pc = "read"
  /\ Unread(s) = <<>>
  /\ Resume(s, HandleClose(Ctx(s)), "end", sessions[s].pos)

\* reader.read() rejects
NetworkErrorText == <<"network error">>
ReadThrows(s) ==
  /\ sessions[s].pc = "read"
  /\ Resume(s, HandleCatch(Ctx(s), NetworkErrorText), "end", sessions[s].pos)

\* ------------------------------------------------------------ the inputs
Hi == <<"Hi">>
HiThere == <<"Hi", " ", "there">>
DailyLimit == <<"Daily", " ", "limit", " ", "reached">>
PlainText == <<"plain", " ", "text", " ", "reply">>
PleaseSubscribe == <<"Please", " ", "subscribe">>
NotSubscribed ==
  <<"You", " ", "are", " ", "not", " ", "a", " ", "subscribed", " ", "member">>

\* What the user types.
InputValues == {<<>>, <<" ">>, <<"hello">>}
UserIdValues == {<<>>, <<" ">>, <<"5">>}
TemplateInputValues == {<<"a shop">>}

\* Response bodies of the chat endpoint: those of the widget's everyday
\* use, and the ones that exercise every branch of the read loop.
TextTextDone ==
  Frame(Obj1("full_text", Hi)) \o Frame(Obj1("full_text", HiThere))
    \o Frame(DONE)
LegacyErrorText ==
  Frame(PlainText) \o Frame(Obj1("error", DailyLimit))
    \o Frame(Obj1("full_text", Hi))
TextOnly == Frame(Obj1("full_text", Hi))
ResponseBodies == { TextTextDone, LegacyErrorText, TextOnly }

AllResponseBodies ==
  ResponseBodies \cup
  { <<>>,
    Frame(Obj1("full_text", Hi)) \o Frame(Obj1("full_text", Hi))
      \o PREFIX \o DONE,
    Frame(Obj1("full_text", Hi)) \o PREFIX \o Obj1("full_text", HiThere),
    Frame(DONE) \o Frame(Obj1("full_text", Hi)),
    Frame(Obj1("error", DailyLimit)) \o Frame(DONE),
    Frame(PleaseSubscribe) \o Frame(PlainText),
    Frame(Obj1("content", NotSubscribed)) \o Frame(Obj1("full_text", Hi)),
    Frame(Obj2("full_text", Hi, "content", DailyLimit)) \o Frame(DONE),
    Frame(Obj2("error", DailyLimit, "full_text", Hi)),
    Frame(<<"{", "}">>) \o Frame(<<"42">>) \o Frame(Obj1("content", Hi))
      \o Frame(DONE),
    Frame(<<"null">>) \o <<"\r", NL>> \o PREFIX \o DONE \o <<"\r", NL>>,
    <<":", " ", "ping", NL, NL>> \o <<"d", "a", "t", "a", ":">> \o DONE
      \o <<NL>> \o Frame(<<" ">>) \o <<"event", ":", " ">> \o Frame(DONE)
      \o Frame(PlainText) }

\* Statuses that are not ok, and the bodies response.json() reads.
Statuses == {429, 500, 401, 503, 404}
ErrorBodies ==
  { Obj1("detail", <<"Quota exceeded">>), Obj1("detail", <<>>),
    <<"{", "}">>, <<"null">>, <<"<html>">> }

\* ------------------------------------------------------- specifications
\* Spec: the whole widget, every handler the user can reach, with the
\* everyday responses of the network, delivered in chunks of ChunkSize.
TypedEvent(inputs, userIds) ==
  \/ \E v \in inputs : ChangeInput(v)
  \/ KeyEnterSend
  \/ ClickSend
  \/ \E v \in userIds : ChangeUserId(v)
  \/ handleUserIdSubmit

TemplateEvent ==
  \/ ToggleTemplatesDropdown
  \/ CloseTemplatesDropdown
  \/ \E t \in PROMPT_TEMPLATES : handleTemplateSelect(t)
  \/ \E v \in TemplateInputValues : handleTemplateInputChange("idea", v)
  \/ ClearSelectedTemplate
  \/ executeTemplate

\* The user acts while a call of sendMessage is running or can be made.
Active == FreeSession \/ \E s \in SessionIds : InFlight(s)

NetworkEvent(statuses, jsons, bodies) ==
  \/ \E s \in SessionIds, status \in statuses, json \in jsons :
       FetchNotOk(s, status, json)
  \/ \E s \in SessionIds : FetchNoBody(s)
  \/ \E s \in SessionIds : FetchThrows(s)
  \/ \E s \in SessionIds, body \in bodies : FetchOk(s, body)
  \/ \E s \in SessionIds : ReadChunk(s, Min(ChunkSize, Len(Unread(s))))
  \/ \E s \in SessionIds : ReadDone(s)
  \/ \E s \in SessionIds : ReadThrows(s)

Next ==
  \/ Active /\ TypedEvent({<<>>, <<"hello">>}, {<<>>, <<"5">>})
  \/ Active /\ resetUserId
  \/ Active /\ TemplateEvent
  \/ NetworkEvent({429}, {Obj1("detail", <<"Quota exceeded">>)}, ResponseBodies)

Spec == Init /\ [][Next]_vars

\* SpecStream: the user sends typed messages, one exchange after the other,
\* and the network answers with every status and body of the inputs.
StreamRoom == Cardinality(Started) < StreamSessions
ActiveStream == StreamRoom \/ \E s \in SessionIds : InFlight(s)
NextStream ==
  \/ /\ ActiveStream
     /\ TypedEvent(InputValues, UserIdValues)
     /\ StreamRoom \/ UNCHANGED sessions
  \/ NetworkEvent(Statuses, ErrorBodies, AllResponseBodies)

SpecStream == Init /\ [][NextStream]_vars

\* SpecSeq: typed messages, one exchange after the other up to MaxSessions,
\* with the everyday responses of the network.
NextSeq ==
  \/ Active /\ TypedEvent({<<>>, <<"hello">>}, {<<>>, <<"5">>})
  \/ NetworkEvent({429}, {Obj1("detail", <<"Quota exceeded">>)}, ResponseBodies)

SpecSeq == Init /\ [][NextSeq]_vars

\* SpecOverlap: the whole widget but the Change button, with responses that
\* carry a text and responses that carry nothing.
NextOverlap ==
  \/ Active /\ TypedEvent({<<>>, <<"hello">>}, {<<>>, <<"5">>})
  \/ Active /\ TemplateEvent
  \/ NetworkEvent({429}, {Obj1("detail", <<"Quota exceeded">>)},
                  {TextOnly, <<>>})

SpecOverlap == Init /\ [][NextOverlap]_vars

\* SpecTok: one exchange whose body arrives cut into chunks at any offsets.
NextTok ==
  \/ ChangeUserId(<<"5">>)
  \/ handleUserIdSubmit
  \/ ChangeInput(<<"hello">>)
  \/ Started = {} /\ ClickSend
  \/ \E s \in SessionIds, body \in AllResponseBodies : FetchOk(s, body)
  \/ \E s \in SessionIds : \E n \in 1..Len(Unread(s)) : ReadChunk(s, n)
  \/ \E s \in SessionIds : ReadDone(s)

SpecTok == Init /\ [][NextTok]_vars

\* SpecLive: SpecStream with the Change button, where the network does not
\* leave a session waiting for ever: a pending fetch resolves or rejects,
\* and a stream that no frame has ended closes or throws in the end.
FetchEvent(s) ==
  \/ \E status \in Statuses, json \in ErrorBodies : FetchNotOk(s, status, json)
  \/ FetchNoBody(s)
  \/ FetchThrows(s)
  \/ \E body \in AllResponseBodies : FetchOk(s, body)

StreamEnds(s) == ReadDone(s) \/ ReadThrows(s)

NextLive ==
  \/ /\ ActiveStream
     /\ TypedEvent({<<>>, <<"hello">>}, {<<>>, <<"5">>})
     /\ StreamRoom \/ UNCHANGED sessions
  \/ ActiveStream /\ resetUserId
  \/ \E s \in SessionIds : FetchEvent(s)
  \/ \E s \in SessionIds : ReadChunk(s, Min(ChunkSize, Len(Unread(s))))
  \/ \E s \in SessionIds : StreamEnds(s)

Fairness ==
  \A s \in SessionIds : WF_vars(FetchEvent(s)) /\ WF_vars(StreamEnds(s))

SpecLive == Init /\ [][NextLive]_vars /\ Fairness

\* ================================================================ claims
Reading(s) == sessions[s].pc = "read"
Ended(s) == sessions[s].pc = "end"
TrailingBot == messages # <<>> /\ Last(messages).sender = "bot"

\* ------------------------------------------------------------------- C1
\* The state of a session at its start, and the result of reading, as one
\* single chunk, all of the body that has been read so far.
StartCtx(s) ==
  [ messages |->
      [messages EXCEPT ![sessions[s].placeholder] = Msg(<<>>, "bot")],
    loading |-> TRUE, currentBotTextRef |-> <<>>, crashed |-> FALSE,
    buffer |-> <<>>, receivedValidResponse |-> FALSE, frames |-> <<>>,
    fetched |-> 0, outcome |-> "none" ]
WholeRun(s) ==
  ProcessChunk(StartCtx(s), Take(sessions[s].body, sessions[s].pos))

\* C1: however the body is cut into chunks, the session is where reading
\* the same text as one chunk would have put it: the same frames forwarded,
\* the same message list, receivedValidResponse and outcome; and when the
\* stream closes it ends as the one-chunk run followed by the close.
C1_SplitInvariance ==
  \A s \in SessionIds :
    /\ Reading(s) => Ctx(s) = WholeRun(s)
    /\ Ended(s) =>
         Ctx(s) = IF WholeRun(s).outcome = "none"
                  THEN HandleClose(WholeRun(s))
                  ELSE WholeRun(s)

\* A frame was forwarded and the next one is cut: its start waits in buffer.
C1_Witness ==
  \E s \in SessionIds :
    /\ Reading(s)
    /\ sessions[s].frames # <<>>
    /\ Len(sessions[s].buffer) > Len(PREFIX)
    /\ StartsWith(sessions[s].buffer, PREFIX)

\* ------------------------------------------------------------------- C2
\* C2: at most one call of sendMessage is between its validation and its
\* end, whatever the user does while it runs.
C2_SingleFlight == Cardinality({s \in SessionIds : InFlight(s)}) <= 1

\* ------------------------------------------------------------------- C3
OpenPlaceholders ==
  { i \in 1..Len(messages) :
      \E s \in SessionIds : InFlight(s) /\ sessions[s].placeholder = i }

\* C3: at most one message of the list is the bot placeholder of a session
\* that has not ended.
C3_OnePlaceholderOpen == Cardinality(OpenPlaceholders) <= 1

\* ------------------------------------------------------------------- C4
\* Payloads of text frames: full_text snapshots and legacy plain text.
TextPayloads ==
  { Obj1("full_text", Hi), Obj1("full_text", HiThere),
    Obj2("full_text", Hi, "content", PlainText), PlainText, <<"plain">> }

\* C4: with the bot placeholder last in the list, a text frame applied a
\* second time changes neither the message list, nor currentBotTextRef, nor
\* receivedValidResponse (nor anything else but the count of frames seen).
C4_TextFrameIdempotent ==
  \A s \in SessionIds :
    (Reading(s) /\ TrailingBot) =>
      \A f \in TextPayloads :
        LET once == ProcessFrame(Ctx(s), f)
            twice == ProcessFrame(once, f)
        IN  /\ twice.messages = once.messages
            /\ twice.currentBotTextRef = once.currentBotTextRef
            /\ twice.receivedValidResponse = once.receivedValidResponse
            /\ twice = [once EXCEPT !.frames = Append(@, f)]
            /\ Last(once.messages).text = once.currentBotTextRef

\* The same full_text frame has been read twice in a row.
C4_Witness ==
  \E s \in SessionIds :
    /\ Reading(s) /\ TrailingBot
    /\ sessions[s].frames = <<Obj1("full_text", Hi), Obj1("full_text", Hi)>>
    /\ Last(messages).text = Hi

\* ------------------------------------------------------------------- C5
\* The snapshot a text frame carries; Undefined for any other frame.
SnapshotOf(dataStr) ==
  LET data == JSONparse(dataStr)
  IN  IF data.kind = "object"
      THEN IF Get(data.obj, "error") = Undefined
           THEN Get(data.obj, "full_text") ELSE Undefined
      ELSE IF data.kind = "fail" /\ dataStr # DONE /\ ~HasMarker(dataStr)
      THEN dataStr
      ELSE Undefined

RECURSIVE LastSnapshot(_)
LastSnapshot(frames) ==
  IF frames = <<>> THEN Undefined
  ELSE IF SnapshotOf(Last(frames)) # Undefined THEN SnapshotOf(Last(frames))
  ELSE LastSnapshot(Front(frames))

\* C5: while a session reads, and when it has ended with [DONE] or with the
\* close of the stream, the text of its placeholder is the snapshot of the
\* latest text frame it processed.
C5_LatestSnapshotRendered ==
  \A s \in SessionIds :
    ( /\ sessions[s].placeholder # 0
      /\ sessions[s].outcome \in {"none", "done", "closed"}
      /\ LastSnapshot(sessions[s].frames) # Undefined )
    => messages[sessions[s].placeholder].text = LastSnapshot(sessions[s].frames)

\* ------------------------------------------------------------------- C6
ErrorTexts == {DailyLimit, <<"boom">>}
ErrorPayloads(e) ==
  { Obj1("error", e), Obj2("error", e, "full_text", Hi),
    Obj2("full_text", Hi, "error", e) }

\* C6, the frame: with the bot placeholder last, an error frame puts its
\* error text there, clears loading and ends the session; the lines that
\* follow it in the chunk are not looked at.
C6_ErrorFrameApplied ==
  \A s \in SessionIds :
    (Reading(s) /\ TrailingBot /\ ~crashed) =>
      \A e \in ErrorTexts : \A f \in ErrorPayloads(e) :
        LET r == ProcessFrame(Ctx(s), f)
        IN  /\ r.messages =
                 [messages EXCEPT ![Len(messages)] = Msg(e, "bot")]
            /\ r.loading = FALSE
            /\ r.outcome = "error"
            /\ r.frames = Append(sessions[s].frames, f)
            /\ \A later \in TextPayloads \cup {DONE} :
                 ProcessLines(Ctx(s), <<PREFIX \o f, PREFIX \o later>>) = r

\* C6, the stream: a session that an error frame ended stays as it is.
C6_ErrorFrameFinal ==
  \A s \in SessionIds :
    sessions[s].outcome = "error" =>
      /\ Ended(s)
      /\ sessions'[s] =
           [sessions[s] EXCEPT !.placeholder = sessions'[s].placeholder]

\* C6: both of the above.
C6_ErrorFrameTerminal == [](C6_ErrorFrameApplied) /\ [][C6_ErrorFrameFinal]_vars

\* An error frame ended a session before the last frame of its body.
C6_Witness ==
  \E s \in SessionIds :
    /\ sessions[s].outcome = "error"
    /\ sessions[s].body = LegacyErrorText
    /\ Last(sessions[s].frames) = Obj1("error", DailyLimit)
    /\ Last(messages) = Msg(DailyLimit, "bot")
    /\ ~loading

\* ------------------------------------------------------------------- C7
NonJsonPayloads ==
  { p \in { PlainText, <<"plain">>, <<"{", Q, "x">>, <<"[", "DONE">>,
            PleaseSubscribe, NotSubscribed,
            <<"Error", ":", " ">> \o DailyLimit \o <<".">>,
            <<"{">> \o PleaseSubscribe } :
      JSONparse(p).kind = "fail" }

\* C7: a payload that is no JSON and holds no marker is shown as the text of
\* the reply and the session goes on; one that holds a marker ends the
\* session as an error showing the payload.
C7_LegacyFallback ==
  \A s \in SessionIds :
    (Reading(s) /\ TrailingBot /\ ~crashed) =>
      \A p \in NonJsonPayloads :
        LET r == ProcessFrame(Ctx(s), p)
        IN  /\ r.messages =
                 [messages EXCEPT ![Len(messages)] = Msg(p, "bot")]
            /\ ~HasMarker(p) =>
                 /\ r.receivedValidResponse
                 /\ r.currentBotTextRef = p
                 /\ r.outcome = "none"
                 /\ r.loading = loading
                 /\ r.fetched = sessions[s].fetched
            /\ r.outcome = "error" <=> HasMarker(p)
            /\ r.outcome \in {"none", "error"}

\* A legacy text frame has been read and the session goes on.
C7_Witness ==
  \E s \in SessionIds :
    /\ Reading(s)
    /\ sessions[s].frames = <<PlainText>>
    /\ sessions[s].receivedValidResponse
    /\ Last(messages) = Msg(PlainText, "bot")
    /\ loading

\* ------------------------------------------------------------------- C8
QuotaExceeded == <<"Quota exceeded">>
Expected429(json) ==
  IF json = Obj1("detail", QuotaExceeded) THEN QuotaExceeded
  ELSE DailyLimitText

\* C8: a session that awaits fetch, its empty placeholder last in the list,
\* and is answered 429 shows the detail of the body, or else the default
\* text, clears loading and ends without having read a frame; and no session
\* that ended without a body has read anything.
C8_Status429 ==
  \A s \in SessionIds :
    /\ ( /\ sessions[s].pc = "fetch" /\ ~crashed
         /\ TrailingBot /\ Last(messages).text = <<>> ) =>
         \A json \in ErrorBodies :
           LET r == HandleCatch(Ctx(s), StatusMessage(429, json))
           IN  /\ r.messages =
                    [messages EXCEPT ![Len(messages)] =
                       Msg(Expected429(json), "bot")]
               /\ r.loading = FALSE
               /\ r.frames = <<>>
               /\ r.outcome = "failed"
    /\ (Ended(s) /\ sessions[s].body = <<>>) =>
         sessions[s].frames = <<>> /\ sessions[s].pos = 0

\* A 429 whose body has a detail ended a session.
C8_Witness ==
  \E s \in SessionIds :
    /\ Ended(s) /\ sessions[s].outcome = "failed"
    /\ sessions[s].frames = <<>>
    /\ Last(messages) = Msg(QuotaExceeded, "bot")
    /\ ~loading

\* ------------------------------------------------------------------- C9
BlankInput == Trim(input) = <<>>

\* C9: a send (Enter or the button) whose text is empty or white space
\* changes nothing: no message, no placeholder, no request, loading as it was.
C9_BlankSendStep ==
  ((KeyEnterSend \/ ClickSend) /\ BlankInput) =>
    UNCHANGED <<messages, loading, sessions, currentBotTextRef, input>>
C9_BlankSendIgnored == [][C9_BlankSendStep]_vars

\* The user can press Enter on an input of white space only.
C9_Witness ==
  /\ ~crashed /\ ~loading /\ userId # <<>> /\ Trim(userId) # <<>>
  /\ input = <<" ">>
  /\ FreeSession

\* ------------------------------------------------------------------ C10
\* C10: a session calls fetchUsageInfo at most once, not before it ends,
\* and once when it ends having received a text frame.
C10_UsageFetchedOnce ==
  \A s \in SessionIds :
    /\ sessions[s].fetched <= 1
    /\ ~Ended(s) => sessions[s].fetched = 0
    /\ (Ended(s) /\ sessions[s].receivedValidResponse) =>
         sessions[s].fetched = 1

\* A session that received text has ended by an exception of the transport,
\* and fetched once.
C10_Witness ==
  \E s \in SessionIds :
    /\ sessions[s].outcome = "failed" /\ sessions[s].receivedValidResponse
    /\ sessions[s].frames # <<>>
    /\ sessions[s].fetched = 1
    /\ ~loading

\* ------------------------------------------------------------------ C11
\* C11: a session has called fetchUsageInfo only if it received a text
\* frame.
C11_FetchOnlyAfterText ==
  \A s \in SessionIds :
    sessions[s].fetched > 0 => sessions[s].receivedValidResponse

\* ------------------------------------------------------------------ C12
\* A frame that ends the session: [DONE], a payload with an error field, a
\* payload whose content holds a marker, a text that is no JSON and holds one.
IsTerminalFrame(dataStr) ==
  LET data == JSONparse(dataStr)
  IN  \/ dataStr = DONE
      \/ data.kind = "object" /\ Get(data.obj, "error") # Undefined
      \/ data.kind = "object" /\ HasMarker(Get(data.obj, "content"))
      \/ data.kind = "fail" /\ HasMarker(dataStr)

SameButPlaceholder(s) ==
  sessions'[s] = [sessions[s] EXCEPT !.placeholder = sessions'[s].placeholder]

\* C12, the chunk: the lines after [DONE] or after an error frame are not
\* looked at; and no session has classified a frame after a terminal one.
C12_NothingAfterTerminal ==
  \A s \in SessionIds :
    /\ \A i \in 1..Len(sessions[s].frames) - 1 :
         ~IsTerminalFrame(sessions[s].frames[i])
    /\ (sessions[s].frames # <<>> /\ IsTerminalFrame(Last(sessions[s].frames)))
         => Ended(s) /\ sessions[s].outcome \in {"done", "error"}
    /\ (Reading(s) /\ TrailingBot /\ ~crashed) =>
         \A t \in {DONE, Obj1("error", DailyLimit)} :
           \A later \in TextPayloads \cup {DONE, Obj1("error", <<"boom">>)} :
             ProcessLines(Ctx(s), <<PREFIX \o t, PREFIX \o later>>)
               = ProcessFrame(Ctx(s), t)

\* C12, the stream: a session that [DONE] or an error frame ended is not
\* resumed: no read of it resolves, and it stays as it is.
C12_TerminalStep ==
  \A s \in SessionIds :
    sessions[s].outcome \in {"done", "error"} =>
      /\ SameButPlaceholder(s)
      /\ ~ReadDone(s) /\ ~ReadThrows(s)
      /\ \A n \in 1..ChunkSize : ~ReadChunk(s, n)

\* C12: both of the above.
C12_TerminalMeansStop ==
  [](C12_NothingAfterTerminal) /\ [][C12_TerminalStep]_vars

\* [DONE] ended a session whose body went on with a text frame.
C12_Witness ==
  \E s \in SessionIds :
    /\ sessions[s].outcome = "done"
    /\ sessions[s].frames = <<DONE>>
    /\ sessions[s].body = Frame(DONE) \o Frame(Obj1("full_text", Hi))
    /\ Last(messages) = Msg(<<>>, "bot")
    /\ ~loading

\* ------------------------------------------------------------------ C13
\* C13: the placeholder of a session that an exception ended (fetch or
\* reader.read() threw, or the response was refused) does not have an empty
\* text.
C13_PlaceholderNeverEmpty ==
  \A s \in SessionIds :
    (sessions[s].outcome = "failed" /\ sessions[s].placeholder # 0)
      => messages[sessions[s].placeholder].text # <<>>

\* ------------------------------------------------------------------ C14
Idle == ~crashed /\ ~loading /\ \A s \in SessionIds : ~InFlight(s)

\* C14: whenever a session is in flight, the widget is later Idle, loading
\* false, given that the network does not leave the session waiting.
SomeInFlight == \E s \in SessionIds : InFlight(s)
C14_ReturnToIdle == SomeInFlight ~> Idle

\* ------------------------------------------------------------------ C15
\* Enter can be pressed in the message input.
EnterPossible == ~crashed /\ ~loading /\ userId # <<>>

\* A rejection: one system message more, nothing else of a send.
RejectedWithNotice ==
  /\ Len(messages') = Len(messages) + 1
  /\ Front(messages') = messages
  /\ Last(messages').sender = "system"
  /\ UNCHANGED <<loading, sessions, currentBotTextRef>>

\* C15: pressing Enter with a user id of white space only, or with a text
\* that is empty or white space only, appends one system message and starts
\* nothing.
C15_ValidationNotice ==
  ( /\ EnterPossible /\ NoticeRoom
    /\ Trim(userId) = <<>> \/ BlankInput )
  => ENABLED (KeyEnterSend /\ RejectedWithNotice)

\* ------------------------------------------------------------------ C16
\* The default message of the class of a status.
ClassDefault(status) ==
  IF status = 429 THEN DailyLimitText
  ELSE IF status = 401 THEN SubscriptionText
  ELSE IF status \in 500..599 THEN ServerErrorText
  ELSE GenericErrorText

\* The message of a JSON error body, Undefined when it has none.
BodyMessage(json) ==
  IF JSONparse(json).kind = "object"
  THEN Get(JSONparse(json).obj, "detail") ELSE Undefined

ExpectedStatusMessage(status, json) ==
  IF BodyMessage(json) # Undefined THEN BodyMessage(json)
  ELSE ClassDefault(status)

\* C16: a session that awaits fetch, its empty placeholder last, and is
\* answered with a status that is not ok ends without reading, showing the
\* message of the error body when it has one, else the default of the class
\* of the status (429, 401, 5xx, other).
C16_StatusMapping ==
  \A s \in SessionIds :
    ( /\ sessions[s].pc = "fetch" /\ ~crashed
      /\ TrailingBot /\ Last(messages).text = <<>> ) =>
      \A status \in Statuses, json \in ErrorBodies :
        LET r == HandleCatch(Ctx(s), StatusMessage(status, json))
        IN  /\ r.outcome = "failed" /\ r.frames = <<>> /\ r.loading = FALSE
            /\ Last(r.messages) =
                 Msg(ExpectedStatusMessage(status, json), "bot")

\* ------------------------------------------------------------------ C17
\* The one class of a payload, chosen in the order: [DONE], error field,
\* content with a marker, full_text; for what is no JSON: marker, text.
PriorityClass(dataStr) ==
  LET data == JSONparse(dataStr)
  IN  IF dataStr = DONE THEN "done"
      ELSE IF data.kind = "object"
      THEN IF Get(data.obj, "error") # Undefined THEN "error"
           ELSE IF HasMarker(Get(data.obj, "content")) THEN "error"
           ELSE IF Get(data.obj, "full_text") # Undefined THEN "text"
           ELSE "none"
      ELSE IF data.kind = "number" THEN "none"
      ELSE IF HasMarker(dataStr) THEN "error"
      ELSE "text"

TextAndMarker == Obj2("full_text", Hi, "content", DailyLimit)

\* C17: a payload with full_text and a content that holds a marker is an
\* error frame only: it leaves currentBotTextRef and receivedValidResponse
\* as they were; and a session has receivedValidResponse only if one of the
\* frames it classified is of the class text.
C17_ClassificationPriority ==
  \A s \in SessionIds :
    /\ sessions[s].receivedValidResponse =>
         \E i \in 1..Len(sessions[s].frames) :
           PriorityClass(sessions[s].frames[i]) = "text"
    /\ (Reading(s) /\ TrailingBot /\ ~crashed) =>
         LET r == ProcessFrame(Ctx(s), TextAndMarker)
         IN  /\ r.outcome = "error"
             /\ Last(r.messages).text = DailyLimit
             /\ r.currentBotTextRef = currentBotTextRef
             /\ r.receivedValidResponse = sessions[s].receivedValidResponse

\* ------------------------------------------------------------------ C18
\* The session started last: currentBotTextRef is its snapshot.
LatestSession == Cardinality(Started)

\* C18: from the creation of its placeholder on, and still after it has
\* ended, the placeholder of the latest session shows currentBotTextRef.
C18_RefIsRendered ==
  \A s \in SessionIds :
    (s = LatestSession /\ sessions[s].placeholder # 0 /\ ~crashed)
      => messages[sessions[s].placeholder].text = currentBotTextRef

\* ------------------------------------------------------------------ C19
\* The payloads of the lines that start with the prefix and hold more than
\* white space after it.
RECURSIVE Forwarded(_)
Forwarded(lines) ==
  IF lines = <<>> THEN <<>>
  ELSE LET line == Head(lines)
           payload == Trim(Drop(line, Len(PREFIX)))
       IN  (IF StartsWith(line, PREFIX) /\ payload # <<>>
            THEN <<payload>> ELSE <<>>) \o Forwarded(Tail(lines))

\* The lines of a body that end with a newline, and what follows the last.
CompleteLines(body) == Front(Split(body))
Tail19(body) == Last(Split(body))

\* C19: a session that read its body to the end, none of whose complete
\* lines is a terminal frame, ends by the close of the stream having
\* classified the payloads of the complete lines and nothing else: what
\* follows the last newline stays in buffer, whatever it looks like.
C19_TailDiscarded ==
  \A s \in SessionIds :
    LET body == sessions[s].body
        frames == Forwarded(CompleteLines(body))
    IN  ( /\ Ended(s) /\ sessions[s].outcome # "failed"
          /\ \A i \in 1..Len(frames) : ~IsTerminalFrame(frames[i]) )
        => /\ sessions[s].outcome = "closed"
           /\ sessions[s].frames = frames
           /\ sessions[s].buffer = Tail19(body)
           /\ sessions[s].receivedValidResponse <=>
                \E i \in 1..Len(frames) : PriorityClass(frames[i]) = "text"
           /\ sessions[s].fetched =
                IF sessions[s].receivedValidResponse THEN 1 ELSE 0

\* The stream closed after a text frame and a second one that lacks its
\* newline: the first is shown.
C19_Witness ==
  \E s \in SessionIds :
    /\ sessions[s].outcome = "closed"
    /\ sessions[s].buffer = PREFIX \o Obj1("full_text", HiThere)
    /\ sessions[s].frames = <<Obj1("full_text", Hi)>>
    /\ Last(messages) = Msg(Hi, "bot")
    /\ ~loading

\* ------------------------------------------------------------------ C20
DataNoSpace == <<"d", "a", "t", "a", ":">>
\* Lines that are no frame: blank, keep-alive, data: without the space,
\* other prefixes, the prefix not at the start, the prefix alone or with
\* white space only.
DroppedLines ==
  { <<>>, <<"\r">>, <<":", " ", "ping">>,
    DataNoSpace \o DONE, DataNoSpace \o Obj1("error", DailyLimit),
    <<"event", ":", " ">> \o DONE, <<" ">> \o PREFIX \o DONE,
    <<"D", "A", "T", "A", ":", " ">> \o Obj1("full_text", Hi),
    PREFIX, PREFIX \o <<" ">>, PREFIX \o <<" ", "\t", "\r">>,
    DONE, Obj1("full_text", Hi), PleaseSubscribe }

FramePayloads ==
  TextPayloads \cup {DONE, Obj1("error", DailyLimit), <<"{", "}">>}

\* C20: a line that does not start with "data: ", or holds nothing but
\* white space after it, changes nothing of the session nor of the list; a
\* line that does is classified as its payload, trimmed; and the frames a
\* session has classified are the first payloads of the complete data: lines
\* of its body.
C20_LineFiltering ==
  \A s \in SessionIds :
    /\ sessions[s].frames =
         Take(Forwarded(CompleteLines(sessions[s].body)),
              Len(sessions[s].frames))
    /\ Reading(s) =>
         /\ \A line \in DroppedLines :
              /\ ProcessLines(Ctx(s), <<line>>) = Ctx(s)
              /\ \A p \in FramePayloads :
                   ProcessLines(Ctx(s), <<line, PREFIX \o p>>)
                     = ProcessFrame(Ctx(s), p)
         /\ \A p \in FramePayloads :
              ProcessLines(Ctx(s), <<PREFIX \o <<" ">> \o p \o <<" ", "\r">>>>)
                = ProcessFrame(Ctx(s), p)

\* A session went through the body of keep-alive, data: without the space,
\* white space payload and event: lines, and classified only its last line.
C20_Witness ==
  \E s \in SessionIds :
    /\ Reading(s)
    /\ Len(CompleteLines(sessions[s].body)) = 6
    /\ sessions[s].pos = Len(sessions[s].body)
    /\ sessions[s].frames = <<PlainText>>
    /\ Last(messages) = Msg(PlainText, "bot")

\* ------------------------------------------------------------------ C21
\* A step in which session s passes the validation of sendMessage.
Accepted(s) == sessions[s].pc = "unused" /\ sessions'[s].pc # "unused"

\* C21, the step: an accepted send appends the user message and then one
\* empty bot message, two elements in all, sets loading, empties
\* currentBotTextRef, and leaves the session waiting for fetch with no frame
\* processed.
C21_StartStep ==
  \A s \in SessionIds :
    Accepted(s) =>
      /\ messages' =
           messages \o <<Msg(sessions'[s].request[1], "user"), Msg(<<>>, "bot")>>
      /\ Trim(sessions'[s].request[1]) # <<>>
      /\ loading' = TRUE
      /\ currentBotTextRef' = <<>>
      /\ sessions'[s].pc = "fetch"
      /\ sessions'[s].frames = <<>> /\ sessions'[s].pos = 0
      /\ sessions'[s].body = <<>>
      /\ sessions'[s].placeholder = Len(messages')

\* C21, the state: a session whose request has not been answered has read
\* nothing and processed no frame.
C21_BeforeResponse ==
  \A s \in SessionIds :
    sessions[s].pc = "fetch" =>
      /\ sessions[s].frames = <<>> /\ ~sessions[s].receivedValidResponse
      /\ sessions[s].body = <<>> /\ sessions[s].pos = 0
      /\ sessions[s].fetched = 0

\* C21: both of the above.
C21_SessionStartOrdering ==
  [](C21_BeforeResponse) /\ [][C21_StartStep]_vars

\* A second send has just been accepted, after an exchange that had left a
\* text in currentBotTextRef.
C21_Witness ==
  /\ sessions[2].pc = "fetch"
  /\ sessions[1].receivedValidResponse
  /\ Len(messages) >= 5
  /\ messages[Len(messages) - 1] = Msg(<<"hello">>, "user")
  /\ Last(messages) = Msg(<<>>, "bot")
  /\ loading /\ currentBotTextRef = <<>>

\* ------------------------------------------------------------------ C22
\* Payloads of every class: text, legacy text, error (field, marker content,
\* legacy marker, text with marker), [DONE], and unrecognized ones.
AllPayloads ==
  FramePayloads \cup
  { Obj1("content", NotSubscribed), PleaseSubscribe, TextAndMarker,
    Obj2("error", DailyLimit, "full_text", Hi),
    <<"42">>, Obj1("content", Hi), Obj1("other", Hi) }

\* The list as it is, and with a system or a user message after the
\* placeholder.
ListsAround(msgs) ==
  { msgs, Append(msgs, Msg(EnterUserIdText, "system")),
    Append(msgs, Msg(<<"hello">>, "user")) }

\* new differs from old at most in the text of its last element.
Confined(old, new) ==
  /\ Len(new) = Len(old)
  /\ \A i \in 1..Len(old) - 1 : new[i] = old[i]
  /\ \A i \in 1..Len(old) : new[i].sender = old[i].sender

\* C22, the frame: no payload changes the length of the list, an element
\* before the last, or a sender; [DONE] and the unrecognized payloads change
\* nothing of it.
C22_FrameConfined ==
  \A s \in SessionIds :
    Reading(s) =>
      \A msgs \in ListsAround(messages) : \A p \in AllPayloads :
        LET r == ProcessFrame([Ctx(s) EXCEPT !.messages = msgs], p)
        IN  /\ Confined(msgs, r.messages)
            /\ PriorityClass(p) \in {"done", "none"} => r.messages = msgs

\* C22, the stream: a step in which a session reads a chunk changes the list
\* at most in the text of its last element.
C22_ReadStep ==
  (\E s \in SessionIds : Reading(s) /\ sessions'[s].pos > sessions[s].pos)
    => Confined(messages, messages')

\* C22: both of the above.
C22_FrameEffectConfined == [](C22_FrameConfined) /\ [][C22_ReadStep]_vars

\* A session has read three unrecognized frames and [DONE]: its placeholder
\* is as it was created.
C22_Witness ==
  \E s \in SessionIds :
    /\ sessions[s].outcome = "done"
    /\ sessions[s].frames =
         << <<"{", "}">>, <<"42">>, Obj1("content", Hi), DONE >>
    /\ Len(messages) = sessions[s].placeholder
    /\ Last(messages) = Msg(<<>>, "bot")

\* ------------------------------------------------------------------ C23
\* The list was cleared or replaced after session s had started.
TornDown(s) == sessions[s].pc # "unused" /\ sessions[s].placeholder = 0

\* C23: no frame and no exception handler of a session whose list was
\* cleared or replaced throws while the list is updated, and once such a
\* session has ended with no other in flight, loading is false.
C23_TeardownTolerated ==
  \A s \in SessionIds :
    TornDown(s) =>
      /\ ~crashed
      /\ (\A t \in SessionIds : ~InFlight(t)) => ~loading

\* ------------------------------------------------------------------ C24
\* Error payloads with the text they carry: error field, marker content,
\* marker in a payload that is no JSON.
ErrorFrames ==
  { <<Obj1("error", DailyLimit), DailyLimit>>,
    <<Obj1("error", <<"boom">>), <<"boom">> >>,
    <<Obj1("content", NotSubscribed), NotSubscribed>>,
    <<PleaseSubscribe, PleaseSubscribe>> }

\* C24: an error frame processed while the last message is no bot message
\* appends a system message with the error text and ends the session.
C24_ErrorWithoutPlaceholder ==
  \A s \in SessionIds :
    (Reading(s) /\ ~crashed /\ messages # <<>> /\ ~TrailingBot) =>
      \A f \in ErrorFrames :
        LET r == ProcessFrame(Ctx(s), f[1])
        IN  /\ r.outcome = "error"
            /\ r.messages = Append(messages, Msg(f[2], "system"))

\* ------------------------------------------------------------------ C25
\* C25: loading is true exactly while some session is in flight.
C25_LoadingTracksSession ==
  ~crashed => (loading <=> SomeInFlight)

\* ------------------------------------------------------------------ C26
\* Text payloads with the snapshot they carry.
TextFrames ==
  { <<Obj1("full_text", Hi), Hi>>,
    <<Obj1("full_text", HiThere), HiThere>>,
    <<Obj2("full_text", Hi, "content", PlainText), Hi>>,
    <<PlainText, PlainText>> }

\* The snapshot of the last text frame that session s has processed.
RECURSIVE LastText(_)
LastText(frames) ==
  IF frames = <<>> THEN <<>>
  ELSE LET hit == {f \in TextFrames : f[1] = Last(frames)}
       IN  IF hit # {} THEN (CHOOSE f \in hit : TRUE)[2]
           ELSE LastText(Front(frames))

\* C26, the frame: a text frame processed while the last message is no bot
\* message leaves the list as it is, sets receivedValidResponse, stores the
\* snapshot in currentBotTextRef, and the session goes on; when the session
\* then ends by [DONE] or by the end of the stream, fetchUsageInfo is called.
C26_TextFrame ==
  \A s \in SessionIds :
    (Reading(s) /\ ~crashed /\ messages # <<>> /\ ~TrailingBot) =>
      \A f \in TextFrames :
        LET r == ProcessFrame(Ctx(s), f[1])
        IN  /\ r.messages = messages
            /\ r.receivedValidResponse
            /\ r.currentBotTextRef = f[2]
            /\ r.outcome = "none"
            /\ HandleDone(r).fetched = r.fetched + 1
            /\ HandleClose(r).fetched = r.fetched + 1

\* C26, the session: a session that has processed a text frame has
\* receivedValidResponse set, and once ended it has called fetchUsageInfo,
\* whatever the list was; with one session, currentBotTextRef holds the last
\* snapshot processed.
C26_TextSession ==
  \A s \in SessionIds :
    (sessions[s].frames # <<>> /\ LastText(sessions[s].frames) # <<>>) =>
      /\ sessions[s].receivedValidResponse
      /\ Ended(s) => sessions[s].fetched = 1
      /\ (s = LatestSession /\ ~crashed) =>
            currentBotTextRef = LastText(sessions[s].frames)

\* C26: a text frame with a message that is no bot message last in the
\* list changes no message, still sets receivedValidResponse and
\* currentBotTextRef, and the quota refresh still fires at the end.
C26_TextWithoutPlaceholder == C26_TextFrame /\ C26_TextSession

\* The list was replaced by the system message of the user id form while
\* the session was in flight; two text frames and [DONE] were processed.
C26_Witness ==
  \E s \in SessionIds :
    /\ sessions[s].outcome = "done"
    /\ sessions[s].frames # <<>>
    /\ LastText(sessions[s].frames) = HiThere
    /\ Len(messages) = 1 /\ Last(messages).sender = "system"
    /\ currentBotTextRef = HiThere
    /\ sessions[s].receivedValidResponse
    /\ sessions[s].fetched = 1
    /\ ~loading /\ ~crashed

\* ------------------------------------------------------------------ C27
\* Session s ended by [DONE] or by the end of the stream and no text frame
\* and no error frame was processed.
EndedWithoutText(s) ==
  /\ sessions[s].outcome \in {"done", "closed"}
  /\ ~sessions[s].receivedValidResponse

\* C27: a session that ended by [DONE] or by the end of the stream without a
\* text or error frame has not called fetchUsageInfo, its placeholder still
\* is the empty bot message, and loading is false while it is the latest
\* session.
C27_EndWithoutText ==
  \A s \in SessionIds :
    EndedWithoutText(s) =>
      /\ sessions[s].fetched = 0
      /\ LastText(sessions[s].frames) = <<>>
      /\ sessions[s].placeholder # 0 =>
           messages[sessions[s].placeholder] = Msg(<<>>, "bot")
      /\ (s = LatestSession /\ ~crashed) => ~loading
====
